---------------------------- MODULE Spec2Model ----------------------------
(***************************************************************************)
(* tinykaboom-rs: a ray-marched, noise-displaced sphere rendered in        *)
(* parallel per scanline and written as a binary P6 pixel map.             *)
(*                                                                         *)
(* Numbers.  The program computes in f32.  The model computes in fixed     *)
(* point: an integer a stands for the real a / Scale.  Products and        *)
(* quotients round towards minus infinity, where f32 rounds to nearest;    *)
(* sin and sqrt are integer approximations.  The model's pixel values are  *)
(* therefore close to, not bit-identical with, the program's; the control  *)
(* flow, the order of the operations and the data flow are those of the    *)
(* source.  A marching ray that misses the surface moves away by a tenth   *)
(* of its distance per step, so positions grow to about 10^6; inside       *)
(* fractal_brownian_motion, where they are scaled up further, they are     *)
(* held as wide numbers (whole part, fraction).                            *)
(***************************************************************************)
EXTENDS Integers, Sequences, FiniteSets

\* f32 values are held as integers in units of 1/Scale.
Scale == 1000

\* main.rs:8-9
SPHERE_RADIUS == 1500
NOISE_AMPLITUDE == 1000

\* Bind(v, F) is F(v), with v evaluated once and then passed by value: a
\* let-binding that TLC never evaluates twice.
Bind(v, F(_)) == CHOOSE r \in { F(x) : x \in {v} } : TRUE

Max(a, b) == IF a >= b THEN a ELSE b
Min(a, b) == IF a <= b THEN a ELSE b

\* f32 multiplication a * b: floor(a*b/Scale), computed in parts so that the
\* intermediate products stay inside TLC's 32-bit integers.
FMul(a, b) ==
    LET qa == a \div Scale
        ra == a % Scale
        qb == b \div Scale
        rb == b % Scale
    IN  qa * b + ra * qb + ((ra * rb) \div Scale)

\* f32 division a / b.
FDiv(a, b) == (a * Scale) \div b

\* f32 as i32: the cast truncates towards zero (and yields a whole number,
\* not a fixed-point value).
AsI32(a) == IF a >= 0 THEN a \div Scale ELSE -((-a) \div Scale)

RECURSIVE SqrtSearch(_, _, _)
SqrtSearch(n, lo, hi) ==
    IF lo >= hi THEN lo
    ELSE Bind((lo + hi + 1) \div 2, LAMBDA mid :
             IF mid * mid <= n THEN SqrtSearch(n, mid, hi)
                               ELSE SqrtSearch(n, lo, mid - 1))

\* The integer square root of n, 0 <= n < 2^31.
ISqrt(n) == Bind(n, LAMBDA m : SqrtSearch(m, 0, 46340))

---------------------------------------------------------------------------
\* geometry.rs

Vec3f(x, y, z) == [x |-> x, y |-> y, z |-> z]

VAdd(a, b) == Vec3f(a.x + b.x, a.y + b.y, a.z + b.z)

VSub(a, b) == Vec3f(a.x - b.x, a.y - b.y, a.z - b.z)

\* Vec3f * f32
VScale(v, s) == Vec3f(FMul(v.x, s), FMul(v.y, s), FMul(v.z, s))

\* Vec3f * Vec3f is the dot product: a scalar.
Dot(a, b) == FMul(a.x, b.x) + FMul(a.y, b.y) + FMul(a.z, b.z)

\* sqrt(x*x + y*y + z*z).  The squares are kept unscaled while they fit, so
\* that the root is exact to 1/Scale; longer vectors lose digits.
RECURSIVE norm(_)
norm(v) ==
    Bind(v, LAMBDA u :
        LET big == Max(Max(Max(u.x, -u.x), Max(u.y, -u.y)), Max(u.z, -u.z))
        IN  IF big <= 26000
            THEN ISqrt(u.x * u.x + u.y * u.y + u.z * u.z)
            ELSE 10 * norm(Vec3f(u.x \div 10, u.y \div 10, u.z \div 10)))

\* v * (1 / norm(v)).  A zero vector gives 1/0 = inf and 0 * inf = NaN in
\* every component; the caller that can meet one tests IsZero first.
IsZero(v) == norm(v) = 0
normalize(v) == VScale(v, FDiv(Scale, norm(v)))

---------------------------------------------------------------------------
\* Wide numbers: [hi, lo] stands for hi + lo/Scale, 0 <= lo < Scale.

Wide(a) == [hi |-> a \div Scale, lo |-> a % Scale]

WAdd(a, b) ==
    [hi |-> a.hi + b.hi + ((a.lo + b.lo) \div Scale), lo |-> (a.lo + b.lo) % Scale]

\* w * c for an f32 constant c (|c| < 4): floor((hi*Scale + lo) * c / Scale).
WMul(w, c) ==
    LET h1 == w.hi \div Scale
        h0 == w.hi % Scale
        t == h0 * c + ((w.lo * c) \div Scale)
    IN  [hi |-> h1 * c + (t \div Scale), lo |-> t % Scale]

WVec(v) == Vec3f(Wide(v.x), Wide(v.y), Wide(v.z))

WVScale(v, c) == Vec3f(WMul(v.x, c), WMul(v.y, c), WMul(v.z, c))

\* row * v for a row of f32 constants.
WDot(row, v) == WAdd(WAdd(WMul(v.x, row.x), WMul(v.y, row.y)), WMul(v.z, row.z))

---------------------------------------------------------------------------
\* main.rs: lerp, hash, noise, rotate, fractal_brownian_motion

Clamp01(t) == Max(Min(t, Scale), 0)

lerp(v0, v1, t) == v0 + FMul(v1 - v0, Clamp01(t))

lerpV(v0, v1, t) == VAdd(v0, VScale(VSub(v1, v0), Clamp01(t)))

\* sin, for an angle in units of 1/Scale radians: the angle is reduced
\* modulo 2*pi and Bhaskara's rational approximation is applied on [0, pi].
Pi == 3142
SinHalf(t) ==
    LET q == t * (Pi - t)
    IN  (16 * q) \div ((5 * Pi * Pi - 4 * q) \div Scale)
Sin(a) ==
    LET t == a % (2 * Pi)
    IN  IF t <= Pi THEN SinHalf(t) ELSE -SinHalf(t - Pi)

\* Whole numbers n and n + SinPeriod have the same Sin.
SinPeriod == 1571

\* n.sin() * 43758.5453, then x - x.floor()
hash(n) ==
    LET s == Sin(n)
        x == s * 43758 + ((s * 5453) \div 10000)
    IN  x % Scale

\* The fade of line 26: f * (f * (Vec3f(3,3,3) - f * 2.)).  The inner
\* product of two vectors is the dot product (geometry.rs:54-59), a scalar,
\* which then scales f.
Fade(f) ==
    VScale(f, Dot(f, VSub(Vec3f(3 * Scale, 3 * Scale, 3 * Scale), VScale(f, 2 * Scale))))

\* Line 25: x - floor(x), for a wide x.
NoiseFrac(x) == Vec3f(x.x.lo, x.y.lo, x.z.lo)

\* Line 27: p * Vec3f(1, 57, 113) for p = floor(x), a whole number.  It is
\* only ever an argument of sin, and is kept reduced modulo SinPeriod.
NoiseIndex(x) ==
    ((x.x.hi % SinPeriod) + 57 * (x.y.hi % SinPeriod) + 113 * (x.z.hi % SinPeriod))
        * Scale

\* Lines 29-41, for the weights f.
NoiseLerp(n, f) ==
    lerp(
      lerp(
        lerp(hash(n + 0 * Scale), hash(n + 1 * Scale), f.x),
        lerp(hash(n + 57 * Scale), hash(n + 58 * Scale), f.x),
        f.y),
      lerp(
        lerp(hash(n + 113 * Scale), hash(n + 114 * Scale), f.x),
        lerp(hash(n + 170 * Scale), hash(n + 171 * Scale), f.x),
        f.y),
      f.z)

noise(x) ==
    Bind(NoiseIndex(x), LAMBDA n :
    Bind(Fade(NoiseFrac(x)), LAMBDA f : NoiseLerp(n, f)))

rotate(v) ==
    Vec3f(WDot(Vec3f(0, 800, 600), v),
          WDot(Vec3f(-800, 360, -480), v),
          WDot(Vec3f(-600, -480, 640), v))

\* The octave weights 0.5, 0.25, 0.125 and 0.0625 are 1/2 ... 1/16, and
\* 0.9375 is 15/16.
fractal_brownian_motion(v) ==
    Bind(rotate(v), LAMBDA p1 :
    Bind(noise(p1) \div 2, LAMBDA f1 :
    Bind(WVScale(p1, 2320), LAMBDA p2 :
    Bind(f1 + (noise(p2) \div 4), LAMBDA f2 :
    Bind(WVScale(p2, 3030), LAMBDA p3 :
    Bind(f2 + (noise(p3) \div 8), LAMBDA f3 :
    Bind(WVScale(p3, 2610), LAMBDA p4 :
    Bind(f3 + (noise(p4) \div 16), LAMBDA f4 :
        (f4 * 16) \div 15))))))))

palette_fire(d0) ==
    LET yellow == Vec3f(1700, 1300, 1000)
        orange == Vec3f(1000, 600, 0)
        red == Vec3f(1000, 0, 0)
        darkgray == Vec3f(200, 200, 200)
        gray == Vec3f(400, 400, 400)
        d == Clamp01(d0)
    IN  IF d < 250 THEN lerpV(gray, darkgray, FMul(d, 4 * Scale))
        ELSE IF d < 500 THEN lerpV(darkgray, red, FMul(d, 4 * Scale) - 1 * Scale)
        ELSE IF d < 750 THEN lerpV(red, orange, FMul(d, 4 * Scale) - 2 * Scale)
        ELSE lerpV(orange, yellow, FMul(d, 4 * Scale) - 3 * Scale)

signed_distance(p) ==
    Bind(WVScale(WVec(p), 3400), LAMBDA q :
    Bind(FMul(-fractal_brownian_motion(q), NOISE_AMPLITUDE), LAMBDA displacement :
        norm(p) - (SPHERE_RADIUS + displacement)))

---------------------------------------------------------------------------
\* main.rs: sphere_trace, distance_field_normal, and the pixel closure

StepFloor == 10

MaxIter == 128

None == [hit |-> FALSE, pos |-> Vec3f(0, 0, 0)]
Some(p) == [hit |-> TRUE, pos |-> p]

\* Line 91: origin*origin - (origin*dir).powf(2.) > SPHERE_RADIUS.powf(2.)
CulledByDiameter(origin, dir) ==
    Dot(origin, origin) - FMul(Dot(origin, dir), Dot(origin, dir))
        > FMul(2 * SPHERE_RADIUS, 2 * SPHERE_RADIUS)
Culled(origin, dir) ==
    Dot(origin, origin) - FMul(Dot(origin, dir), Dot(origin, dir))
        > FMul(SPHERE_RADIUS, SPHERE_RADIUS)

\* Line 98: the march stops at a sample whose distance is negative.
IsHitWithinFloor(d) == d < StepFloor
IsHit(d) == d < 0

\* Line 102: (d * 0.1).max(0.01)
StepLengthNoFloor(d) == d \div 10
StepLength(d) == Max(d \div 10, StepFloor)

\* Line 102: pos + dir * step
Advance(pos, dir, d) == VAdd(pos, VScale(dir, StepLength(d)))

\* Line 96: for _ in 0..128
CapReachedLate(k) == k = MaxIter + 1
CapReached(k) == k = MaxIter

\* Lines 97-102: one turn of the loop, from the state s of the march: its
\* position, the turns taken, whether and how it has ended, and the
\* positions at which signed_distance has been evaluated.
LoopTurn(s, dir) ==
    IF s.done THEN s
    ELSE IF CapReached(s.k) THEN [s EXCEPT !.done = TRUE]
    ELSE Bind(signed_distance(s.pos),
              LAMBDA d : IF IsHit(d)
                         THEN [s EXCEPT !.done = TRUE, !.hit = TRUE,
                                        !.seen = s.seen \cup {s.pos}]
                         ELSE [s EXCEPT !.pos = Advance(s.pos, dir, d), !.k = s.k + 1,
                                        !.seen = s.seen \cup {s.pos}])

\* n turns of the loop, evaluated in halves to keep the evaluation shallow.
RECURSIVE Loop(_, _, _)
Loop(s, dir, n) ==
    IF n = 0 THEN s
    ELSE IF n = 1 THEN LoopTurn(s, dir)
    ELSE Bind(Loop(s, dir, n \div 2), LAMBDA m : Loop(m, dir, n - (n \div 2)))

\* Lines 95-104: the turns of the loop and the exit at its end.
MarchEnd(origin, dir) ==
    Loop([pos |-> origin, k |-> 0, done |-> FALSE, hit |-> FALSE, seen |-> {}],
         dir, MaxIter + 1)

March(origin, dir) ==
    Bind(MarchEnd(origin, dir), LAMBDA s : IF s.hit THEN Some(s.pos) ELSE None)

sphere_trace(origin, dir) ==
    IF Culled(origin, dir) THEN None ELSE March(origin, dir)

Eps == 100
Gradient(pos) ==
    Bind(signed_distance(pos), LAMBDA d :
        Vec3f(signed_distance(VAdd(pos, Vec3f(Eps, 0, 0))) - d,
              signed_distance(VAdd(pos, Vec3f(0, Eps, 0))) - d,
              signed_distance(VAdd(pos, Vec3f(0, 0, Eps))) - d))

\* tan(fov / 2.) for fov = PI / 3.
TanHalfFov == 577
LightFloor == 400
NoiseBias == 200

light_pos == Vec3f(10 * Scale, 10 * Scale, 10 * Scale)
camera_pos == Vec3f(0, 0, 3 * Scale)
background_color == Vec3f(200, 700, 800)

\* Lines 131-133 and 136: the ray through pixel (i, j) of a w x h image.
RayDir(i, j, w, h) ==
    normalize(Vec3f((i * Scale + Scale \div 2) - (w * Scale) \div 2,
                    -(j * Scale + Scale \div 2) + (h * Scale) \div 2,
                    -FDiv(h * Scale, 2 * TanHalfFov)))

\* Lines 139-140.  A zero gradient normalizes to NaN, the dot product is
\* NaN, and f32::max(NaN, 0.4) is 0.4.
LightIntensity(hit) ==
    Bind(Gradient(hit), LAMBDA g :
        IF IsZero(g) THEN LightFloor
        ELSE Max(Dot(normalize(VSub(light_pos, hit)), normalize(g)), LightFloor))

\* Lines 127-145: the value the closure stores in pixel i of line j.  It
\* reads i, j and the constants, and nothing else.
PixelColor(i, j, w, h) ==
    Bind(RayDir(i, j, w, h), LAMBDA dir :
    Bind(sphere_trace(camera_pos, dir), LAMBDA r :
        IF r.hit
        THEN LET noise_level == FDiv(SPHERE_RADIUS - norm(r.pos), NOISE_AMPLITUDE)
             IN  VScale(palette_fire(FMul(-NoiseBias + noise_level, 2 * Scale)),
                        LightIntensity(r.pos))
        ELSE background_color))

---------------------------------------------------------------------------
\* The image.  main renders 640 x 480 pixels; the model renders a small
\* image, some of whose rays hit the surface while the others are culled.
\* (The rays that march and miss are those of TraceSpec.)

width == 3
height == 2

\* main.rs:117-118
SrcWidth == 640
SrcHeight == 480

\* std::io::BufWriter's capacity (8192 in std), scaled with the image: larger
\* than the header, smaller than the file.
BufCap == 16

FbLen == width * height

Cells == 0 .. (FbLen - 1)

\* par_chunks_mut(width): consecutive chunks of width cells, the last one
\* possibly shorter; enumerate() numbers them from 0.
ChunkCount == (FbLen + width - 1) \div width

Tasks == 0 .. (ChunkCount - 1)

ChunkLen(j) == Min(width, FbLen - j * width)

\* The cell behind line[i] of chunk j.
CellIndexOverlap(j, i) == j * (width - 1) + i
CellIndex(j, i) == j * width + i

VARIABLES
    pc,               \* where main is
    framebuffer,      \* cell -> Vec3f
    col,              \* task -> the next i of its line
    writes,           \* cell -> how often it was assigned
    writers,          \* cell -> the tasks that assigned it
    first_task,       \* the task that assigned first (-1: none yet)
    shade,            \* PixelColor tabulated: <<i, j>> -> Vec3f
    twin_pc,          \* a second execution of the render pass
    twin_framebuffer,
    twin_col,
    twin_first_task,
    created,          \* ./out.ppm exists
    file,             \* its bytes on disk
    buf,              \* the BufWriter's buffer
    next,             \* the next cell to encode
    io_failed,        \* some file-system operation failed
    read_unwritten,   \* the encoder read a cell no task had assigned
    t_pc,             \* sphere_trace: where it is
    t_origin,
    t_dir,
    t_pos,
    t_iter,
    t_field,          \* signed_distance, tabulated where this call evaluates it
    t_evals,          \* how often signed_distance was evaluated
    t_samples,        \* the samples so far: <<[pos, d], ...>>
    t_result,
    n_pc,             \* noise: where it is
    n_x,
    n_fade,
    n_val

renderVars == <<framebuffer, col, writes, writers, first_task>>
twinVars == <<twin_pc, twin_framebuffer, twin_col, twin_first_task>>
ioVars == <<created, file, buf, next, io_failed, read_unwritten>>
traceVars ==
    <<t_pc, t_origin, t_dir, t_field, t_pos, t_iter, t_evals, t_samples, t_result>>
noiseVars == <<n_pc, n_x, n_fade, n_val>>
vars == <<pc, shade, renderVars, twinVars, ioVars, traceVars, noiseVars>>

Zero == Vec3f(0, 0, 0)

---------------------------------------------------------------------------
\* main.rs:121-147: the render pass

\* Lines 126-146: what the closure stores in line[i] of chunk j.  others is
\* the progress of the tasks of the same pass, which the closure cannot see.
ClosureValueShared(i, j, others) ==
    IF \E t \in DOMAIN others : t # j /\ others[t] > 0
    THEN VAdd(shade[<<i, j>>], Vec3f(1, 1, 1))
    ELSE shade[<<i, j>>]
ClosureValue(i, j, others) == shade[<<i, j>>]

\* for_each returns when every chunk has been processed.
RenderCompleteAny(c) == \E j \in Tasks : c[j] = ChunkLen(j)
RenderComplete(c) == \A j \in Tasks : c[j] = ChunkLen(j)

RenderInit ==
    /\ framebuffer = [k \in Cells |-> Zero]
    /\ col = [j \in Tasks |-> 0]
    /\ writes = [k \in Cells |-> 0]
    /\ writers = [k \in Cells |-> {}]
    /\ first_task = -1
    /\ shade = [ij \in (0 .. (width - 1)) \X (0 .. (height - 1)) |->
                   PixelColor(ij[1], ij[2], width, height)]

\* Task j assigns the next pixel of its line.
RenderPixel(j) ==
    /\ pc = "render"
    /\ col[j] < ChunkLen(j)
    /\ LET i == col[j]
           k == CellIndex(j, i)
       IN  /\ framebuffer' = [framebuffer EXCEPT ![k] = ClosureValue(i, j, col)]
           /\ writes' = [writes EXCEPT ![k] = @ + 1]
           /\ writers' = [writers EXCEPT ![k] = @ \cup {j}]
           /\ col' = [col EXCEPT ![j] = i + 1]
    /\ first_task' = IF first_task = -1 THEN j ELSE first_task
    /\ UNCHANGED <<pc, shade, twinVars, ioVars, traceVars, noiseVars>>

\* Line 147: for_each returns.
JoinRender ==
    /\ pc = "render"
    /\ RenderComplete(col)
    /\ pc' = "create"
    /\ UNCHANGED <<shade, renderVars, twinVars, ioVars, traceVars, noiseVars>>

\* The same pass, executed a second time under its own schedule.
TwinRenderPixel(j) ==
    /\ twin_pc = "render"
    /\ twin_col[j] < ChunkLen(j)
    /\ LET i == twin_col[j]
           k == CellIndex(j, i)
       IN  /\ twin_framebuffer' =
                  [twin_framebuffer EXCEPT ![k] = ClosureValue(i, j, twin_col)]
           /\ twin_col' = [twin_col EXCEPT ![j] = i + 1]
    /\ twin_first_task' = IF twin_first_task = -1 THEN j ELSE twin_first_task
    /\ UNCHANGED <<pc, shade, renderVars, twin_pc, ioVars, traceVars, noiseVars>>

TwinJoinRender ==
    /\ twin_pc = "render"
    /\ RenderComplete(twin_col)
    /\ twin_pc' = "create"
    /\ UNCHANGED <<pc, shade, renderVars, twin_framebuffer, twin_col,
                   twin_first_task, ioVars, traceVars, noiseVars>>

---------------------------------------------------------------------------
\* main.rs:149-158: the output file

RECURSIVE Decimal(_)
Decimal(n) == IF n < 10 THEN <<48 + n>> ELSE Decimal(n \div 10) \o <<48 + (n % 10)>>

\* Line 151: "P6\n{} {}\n255\n".  write! hands the writer the literal pieces
\* and the formatted numbers one by one.
HeaderPieces(w, h) ==
    << <<80, 54, 10>>, Decimal(w), <<32>>, Decimal(h), <<10, 50, 53, 53, 10>> >>

Header(w, h) ==
    LET ps == HeaderPieces(w, h)
    IN  ps[1] \o ps[2] \o ps[3] \o ps[4] \o ps[5]

\* Lines 154-156: (p.x as i32).min(255).max(0) as u8
ToByteRounded(a) == Max(Min(AsI32(a + Scale \div 2), 255), 0)
ToByte(a) == Max(Min(AsI32(a), 255), 0)

\* Lines 153-157: the three bytes of a pixel.
PixelBytes(pixel) ==
    LET p == VScale(pixel, 255 * Scale)
    IN  <<ToByte(p.x), ToByte(p.y), ToByte(p.z)>>

\* BufWriter::flush_buf: the buffer is written to the file; when a write
\* fails, the n bytes written before it are on disk and leave the buffer.
FlushBuf(b, f) ==
    { [ok |-> n = Len(b), buf |-> SubSeq(b, n + 1, Len(b)), file |-> f \o SubSeq(b, 1, n)] :
        n \in 0 .. Len(b) }

\* BufWriter::write_all
BufWriteAll(b, f, data) ==
    LET spare == BufCap - Len(b)
    IN  IF Len(data) < spare
        THEN {[ok |-> TRUE, buf |-> b \o data, file |-> f]}
        ELSE UNION {
               IF ~o.ok THEN {o}
               ELSE IF Len(data) >= BufCap
               THEN { [ok |-> n = Len(data), buf |-> o.buf,
                       file |-> o.file \o SubSeq(data, 1, n)] : n \in 0 .. Len(data) }
               ELSE {[ok |-> TRUE, buf |-> o.buf \o data, file |-> o.file]} :
               o \in (IF Len(data) > spare THEN FlushBuf(b, f)
                      ELSE {[ok |-> TRUE, buf |-> b, file |-> f]}) }

\* write_fmt: the pieces in order, up to the first error.
RECURSIVE WritePieces(_, _, _)
WritePieces(b, f, ps) ==
    IF ps = <<>> THEN {[ok |-> TRUE, buf |-> b, file |-> f]}
    ELSE UNION { IF o.ok THEN WritePieces(o.buf, o.file, Tail(ps)) ELSE {o} :
                 o \in BufWriteAll(b, f, Head(ps)) }

\* Drop for BufWriter: flush_buf, its result ignored.
DropNoFlush(b, f) == {[ok |-> TRUE, buf |-> b, file |-> f]}
DropWriter(b, f) == FlushBuf(b, f)

IoInit ==
    /\ created = FALSE
    /\ file = <<>>
    /\ buf = <<>>
    /\ next = 0
    /\ io_failed = FALSE
    /\ read_unwritten = FALSE

\* Line 149: File::create(..).unwrap()
CreateFile ==
    /\ pc = "create"
    /\ \E ok \in BOOLEAN :
         /\ created' = ok
         /\ io_failed' = ~ok
         /\ pc' = IF ok THEN "header" ELSE "panicked"
    /\ UNCHANGED <<shade, renderVars, twinVars, file, buf, next, read_unwritten,
                   traceVars, noiseVars>>

\* Line 151: write!(..).unwrap()
WriteHeader ==
    /\ pc = "header"
    /\ \E o \in WritePieces(buf, file, HeaderPieces(width, height)) :
         /\ buf' = o.buf
         /\ file' = o.file
         /\ io_failed' = ~o.ok
         /\ pc' = IF o.ok THEN "pixels" ELSE "unwind"
    /\ UNCHANGED <<shade, renderVars, twinVars, created, next, read_unwritten,
                   traceVars, noiseVars>>

\* Lines 152-157: one turn of the loop.
WritePixel ==
    /\ pc = "pixels"
    /\ next < FbLen
    /\ \E o \in BufWriteAll(buf, file, PixelBytes(framebuffer[next])) :
         /\ buf' = o.buf
         /\ file' = o.file
         /\ io_failed' = (io_failed \/ ~o.ok)
         /\ pc' = IF o.ok THEN "pixels" ELSE "unwind"
    /\ next' = next + 1
    /\ read_unwritten' = (read_unwritten \/ writes[next] = 0)
    /\ UNCHANGED <<shade, renderVars, twinVars, created, traceVars, noiseVars>>

\* Line 158: main returns; the writer is dropped and the process exits
\* with status 0.
ReturnFromMain ==
    /\ pc = "pixels"
    /\ next = FbLen
    /\ \E o \in DropWriter(buf, file) :
         /\ buf' = <<>>
         /\ file' = o.file
         /\ io_failed' = (io_failed \/ ~o.ok)
    /\ pc' = "exit_ok"
    /\ UNCHANGED <<shade, renderVars, twinVars, created, next, read_unwritten,
                   traceVars, noiseVars>>

\* An unwrap() panicked with the writer alive: unwinding drops the writer,
\* and the process exits with a failure status.  (A build that aborts on
\* panic drops nothing: the file is then as after a flush that wrote no
\* byte, one of the outcomes of FlushBuf.)
Unwind ==
    /\ pc = "unwind"
    /\ \E o \in DropWriter(buf, file) :
         /\ buf' = <<>>
         /\ file' = o.file
    /\ pc' = "panicked"
    /\ UNCHANGED <<shade, renderVars, twinVars, created, next, io_failed,
                   read_unwritten, traceVars, noiseVars>>

---------------------------------------------------------------------------
\* main.rs:90-105: sphere_trace, one loop turn at a time

\* The rays: from each origin towards each point of a grid in the plane
\* z = 0, which reaches beyond the bounding sphere.
TraceGrid == 2

TraceOrigins == {camera_pos, Vec3f(1500, 0, -2500)}

TraceTargets ==
    { Vec3f(a * Scale, b * Scale, 0) : a \in -TraceGrid .. TraceGrid, b \in -TraceGrid .. TraceGrid }

TraceIdle ==
    /\ t_pc = "idle"
    /\ t_origin = Zero
    /\ t_dir = Zero
    /\ t_field = [p \in {} |-> 0]
    /\ t_pos = Zero
    /\ t_iter = 0
    /\ t_evals = 0
    /\ t_samples = <<>>
    /\ t_result = None

\* The positions at which a call evaluates signed_distance.
EvaluatedAt(origin, dir) ==
    IF Culled(origin, dir) THEN {} ELSE MarchEnd(origin, dir).seen

\* The call.  pos is bound to origin at line 95; the model holds it from
\* the start.
TraceCall ==
    /\ t_pc = "cull"
    /\ t_origin \in TraceOrigins
    /\ \E target \in TraceTargets : t_dir = normalize(VSub(target, t_origin))
    /\ t_field = [p \in EvaluatedAt(t_origin, t_dir) |-> signed_distance(p)]
    /\ t_pos = t_origin
    /\ t_iter = 0
    /\ t_evals = 0
    /\ t_samples = <<>>
    /\ t_result = None

\* Lines 91-95
TraceCull ==
    /\ t_pc = "cull"
    /\ t_pc' = IF Culled(t_origin, t_dir) THEN "done" ELSE "march"
    /\ t_result' = None
    /\ UNCHANGED <<t_origin, t_dir, t_field, t_pos, t_iter, t_evals, t_samples>>
    /\ UNCHANGED <<pc, shade, renderVars, twinVars, ioVars, noiseVars>>

\* Lines 96-103: one turn of the loop.
TraceStep ==
    /\ t_pc = "march"
    /\ ~CapReached(t_iter)
    /\ \E d \in {t_field[t_pos]} :
           /\ t_evals' = t_evals + 1
           /\ t_samples' = Append(t_samples, [pos |-> t_pos, d |-> d])
           /\ IF IsHit(d)
              THEN /\ t_result' = Some(t_pos)
                   /\ t_pc' = "done"
                   /\ UNCHANGED <<t_pos, t_iter>>
              ELSE /\ t_pos' = Advance(t_pos, t_dir, d)
                   /\ t_iter' = t_iter + 1
                   /\ UNCHANGED <<t_result, t_pc>>
    /\ UNCHANGED <<t_origin, t_dir, t_field>>
    /\ UNCHANGED <<pc, shade, renderVars, twinVars, ioVars, noiseVars>>

\* Line 104
TraceExhausted ==
    /\ t_pc = "march"
    /\ CapReached(t_iter)
    /\ t_result' = None
    /\ t_pc' = "done"
    /\ UNCHANGED <<t_origin, t_dir, t_field, t_pos, t_iter, t_evals, t_samples>>
    /\ UNCHANGED <<pc, shade, renderVars, twinVars, ioVars, noiseVars>>

---------------------------------------------------------------------------
\* main.rs:23-42: noise

NoiseRange == 3
NoiseStep == 250

NoiseCoords == { c * NoiseStep : c \in -NoiseRange .. NoiseRange }

NoiseIdle ==
    /\ n_pc = "idle"
    /\ n_x = Zero
    /\ n_fade = Zero
    /\ n_val = 0

NoiseCall ==
    /\ n_pc = "call"
    /\ n_x \in { Vec3f(a, b, c) : a \in NoiseCoords, b \in NoiseCoords, c \in NoiseCoords }
    /\ n_fade = Zero
    /\ n_val = 0

NoiseReturn ==
    /\ n_pc = "call"
    /\ n_fade' = Fade(NoiseFrac(WVec(n_x)))
    /\ n_val' = noise(WVec(n_x))
    /\ n_pc' = "ret"
    /\ UNCHANGED n_x
    /\ UNCHANGED <<pc, shade, renderVars, twinVars, ioVars, traceVars>>

---------------------------------------------------------------------------
\* The specifications

TwinIdle ==
    /\ twin_pc = "idle"
    /\ twin_framebuffer = [k \in Cells |-> Zero]
    /\ twin_col = [j \in Tasks |-> 0]
    /\ twin_first_task = -1

\* One run of main.
Init ==
    /\ pc = "render"
    /\ RenderInit
    /\ TwinIdle
    /\ IoInit
    /\ TraceIdle
    /\ NoiseIdle

Next ==
    \/ \E j \in Tasks : RenderPixel(j)
    \/ JoinRender
    \/ CreateFile
    \/ WriteHeader
    \/ WritePixel
    \/ ReturnFromMain
    \/ Unwind

Spec == Init /\ [][Next]_vars

\* The render pass of two runs, each under its own schedule.
TwinInit ==
    /\ pc = "render"
    /\ RenderInit
    /\ twin_pc = "render"
    /\ twin_framebuffer = [k \in Cells |-> Zero]
    /\ twin_col = [j \in Tasks |-> 0]
    /\ twin_first_task = -1
    /\ IoInit
    /\ TraceIdle
    /\ NoiseIdle

TwinNext ==
    \/ \E j \in Tasks : RenderPixel(j)
    \/ JoinRender
    \/ \E j \in Tasks : TwinRenderPixel(j)
    \/ TwinJoinRender

TwinSpec == TwinInit /\ [][TwinNext]_vars

RenderIdle ==
    /\ pc = "idle"
    /\ framebuffer = [k \in Cells |-> Zero]
    /\ col = [j \in Tasks |-> 0]
    /\ writes = [k \in Cells |-> 0]
    /\ writers = [k \in Cells |-> {}]
    /\ first_task = -1
    /\ shade = <<>>

\* A call of sphere_trace.  The function is sequential code that runs to
\* its return, hence the fairness.
TraceInit ==
    /\ RenderIdle
    /\ TwinIdle
    /\ IoInit
    /\ TraceCall
    /\ NoiseIdle

TraceNext ==
    \/ TraceCull
    \/ TraceStep
    \/ TraceExhausted

TraceSpec == TraceInit /\ [][TraceNext]_vars /\ WF_vars(TraceNext)

\* A call of noise.
NoiseInit ==
    /\ RenderIdle
    /\ TwinIdle
    /\ IoInit
    /\ TraceIdle
    /\ NoiseCall

NoiseNext == NoiseReturn

NoiseSpec == NoiseInit /\ [][NoiseNext]_vars

---------------------------------------------------------------------------
\* The claims

HeaderLen == Len(Header(width, height))

\* The channel of the framebuffer behind byte p of the file, p > HeaderLen.
ChannelAt(p) ==
    LET q == p - HeaderLen - 1
        pixel == framebuffer[q \div 3]
    IN  IF q % 3 = 0 THEN pixel.x ELSE IF q % 3 = 1 THEN pixel.y ELSE pixel.z

PixelPositions == (HeaderLen + 1) .. Len(file)

\* C1: in the render pass every cell is assigned at most once, only by the
\* task of its own row (task j assigns cells j*width .. j*width+width-1),
\* never by two tasks, and when the pass has ended every cell has been
\* assigned exactly once.
C1_EachCellOnceByItsRow ==
    /\ \A k \in Cells :
         /\ writes[k] <= 1
         /\ Cardinality(writers[k]) <= 1
         /\ \A j \in writers[k] : j * width <= k /\ k <= j * width + width - 1
    /\ pc # "render" => \A k \in Cells : writes[k] = 1

C1_Witness ==
    /\ pc = "create"
    /\ \A k \in Cells : writes[k] = 1
    /\ Cardinality(UNION { writers[k] : k \in Cells }) >= 2

\* C2: two executions of the render pass, each under its own schedule, end
\* with the same value in every cell, and that value is the one determined
\* by the cell's own (i, j).
C2_SameImageUnderAnySchedule ==
    (pc # "render" /\ twin_pc # "render") =>
        /\ framebuffer = twin_framebuffer
        /\ \A k \in Cells :
             PixelBytes(framebuffer[k]) = PixelBytes(twin_framebuffer[k])
        /\ \A j \in 0 .. (height - 1) : \A i \in 0 .. (width - 1) :
             framebuffer[j * width + i] = shade[<<i, j>>]

C2_Witness ==
    /\ pc # "render"
    /\ twin_pc # "render"
    /\ first_task # twin_first_task

\* C3: the file is created, and bytes are buffered or written, only after
\* every scanline task has finished; the encoder never reads a cell that no
\* task has assigned.
C3_EncodingAfterRender ==
    /\ (created \/ file # <<>> \/ buf # <<>> \/ next > 0 \/ pc # "render") =>
          /\ pc # "render"
          /\ \A j \in Tasks : col[j] = ChunkLen(j)
          /\ \A k \in Cells : writes[k] >= 1
    /\ ~read_unwritten

C3_Witness ==
    /\ created
    /\ Len(file) > HeaderLen
    /\ next > 0

\* C5: after a run in which every file operation succeeded, the file is the
\* header followed by the three bytes x, y, z of every pixel in framebuffer
\* order, hence HeaderLen + width*height*3 bytes; for the 640 x 480 image of
\* main the header has 15 bytes.
C5_FileIsHeaderThenPixels ==
    (pc = "exit_ok" /\ ~io_failed) =>
        /\ Len(file) = HeaderLen + width * height * 3
        /\ SubSeq(file, 1, HeaderLen) = Header(width, height)
        /\ \A k \in Cells :
             /\ file[HeaderLen + 3 * k + 1] = ToByte(255 * framebuffer[k].x)
             /\ file[HeaderLen + 3 * k + 2] = ToByte(255 * framebuffer[k].y)
             /\ file[HeaderLen + 3 * k + 3] = ToByte(255 * framebuffer[k].z)
        /\ Len(Header(SrcWidth, SrcHeight)) = 15

C5_Witness ==
    /\ pc = "exit_ok"
    /\ ~io_failed
    /\ Len(file) > BufCap

\* round(x) for a fixed-point x: to the nearest whole number, halves away
\* from zero.
RoundNearest(x) ==
    IF x >= 0 THEN (2 * x + Scale) \div (2 * Scale)
    ELSE -((-2 * x + Scale) \div (2 * Scale))

\* C6, as claimed: every pixel byte of the file is
\* clamp(round(v * 255), 0, 255) for its channel value v.
C6_BytesAreRounded ==
    \A p \in PixelPositions :
        file[p] = Max(Min(RoundNearest(255 * ChannelAt(p)), 255), 0)

\* C6, amended: every pixel byte of the file is clamp(trunc(v * 255), 0, 255):
\* the scaled value is truncated towards zero, not rounded.
C6_BytesAreTruncated ==
    \A p \in PixelPositions :
        LET x == 255 * ChannelAt(p)
            b == file[p]
        IN  /\ b \in 0 .. 255
            /\ x >= 255 * Scale => b = 255
            /\ x < Scale => b = 0
            /\ (x >= Scale /\ x < 255 * Scale) => (b * Scale <= x /\ x < (b + 1) * Scale)

C6_Witness ==
    \E p \in PixelPositions :
        LET x == 255 * ChannelAt(p)
        IN  x > 0 /\ x < 255 * Scale /\ x % Scale >= Scale \div 2

\* C7: when persisting the image fails at any point, the process ends with
\* a failure, and no file is left that carries the complete header but
\* fewer than width*height*3 pixel bytes.
C7_FailureLeavesNoPartialImage ==
    (pc \in {"exit_ok", "panicked"} /\ io_failed) =>
        /\ pc = "panicked"
        /\ ~(/\ created
             /\ Len(file) >= HeaderLen
             /\ SubSeq(file, 1, HeaderLen) = Header(width, height)
             /\ Len(file) < HeaderLen + width * height * 3)

NoNegativeSample == \A m \in 1 .. Len(t_samples) : t_samples[m].d >= 0

\* C4: sphere_trace returns; it evaluates signed_distance at most 128 times;
\* and when no evaluation was negative it returns None.
C4_TraceTerminates ==
    /\ <>(t_pc = "done")
    /\ [](/\ t_evals <= 128
          /\ Len(t_samples) = t_evals
          /\ (t_pc = "done" /\ NoNegativeSample) => ~t_result.hit)

C4_Witness ==
    /\ t_pc = "done"
    /\ t_evals = 128
    /\ NoNegativeSample
    /\ ~t_result.hit

\* |origin|^2 - dot(origin, direction)^2 > R^2
BeyondBoundingSphere ==
    Dot(t_origin, t_origin) - FMul(Dot(t_origin, t_dir), Dot(t_origin, t_dir))
        > FMul(SPHERE_RADIUS, SPHERE_RADIUS)

\* C8: a ray whose closest approach to the centre exceeds R returns None,
\* with no evaluation of signed_distance and the position never advanced.
C8_CulledRaysAreNotMarched ==
    (t_pc \in {"march", "done"} /\ BeyondBoundingSphere) =>
        /\ t_pc = "done"
        /\ ~t_result.hit
        /\ t_evals = 0
        /\ t_samples = <<>>
        /\ t_iter = 0
        /\ t_pos = t_origin

C8_Witness ==
    /\ t_pc = "done"
    /\ BeyondBoundingSphere

\* C9: a hit is the first sample of the sequence pos_0 = origin,
\* pos_{k+1} = pos_k + direction * max(0.1 * sdf(pos_k), 0.01) at which sdf
\* is negative: the earlier samples are not negative, the returned point is
\* the last sample itself, and every step before it is at least 0.01 long.
C9_HitIsFirstNegativeSample ==
    (t_pc = "done" /\ t_result.hit) =>
        LET n == Len(t_samples)
        IN  /\ n >= 1
            /\ t_samples[1].pos = t_origin
            /\ t_result.pos = t_samples[n].pos
            /\ signed_distance(t_result.pos) < 0
            /\ \A m \in 1 .. n : t_samples[m].d = signed_distance(t_samples[m].pos)
            /\ \A m \in 1 .. (n - 1) :
                 LET step == Max(t_samples[m].d \div 10, 10)
                 IN  /\ t_samples[m].d >= 0
                     /\ step >= 10
                     /\ t_samples[m + 1].pos =
                            VAdd(t_samples[m].pos, VScale(t_dir, step))

C9_Witness ==
    /\ t_pc = "done"
    /\ t_result.hit
    /\ Len(t_samples) >= 3
    /\ \E m \in 1 .. (Len(t_samples) - 1) : t_samples[m].d < 100

FadeTol == 2

\* C10: each weight of the fade is f.c * f.c * (3 - 2*f.c), to within the
\* rounding of the arithmetic, for its own component f.c of the fractional
\* offset, and lies in [0, 1].
C10_FadeIsComponentwise ==
    n_pc = "ret" =>
        LET f == NoiseFrac(WVec(n_x))
            own(c) == FMul(c, FMul(c, 3 * Scale - 2 * c))
            near(a, b) == a - b <= FadeTol /\ b - a <= FadeTol
        IN  /\ near(n_fade.x, own(f.x)) /\ n_fade.x >= 0 /\ n_fade.x <= Scale
            /\ near(n_fade.y, own(f.y)) /\ n_fade.y >= 0 /\ n_fade.y <= Scale
            /\ near(n_fade.z, own(f.z)) /\ n_fade.z >= 0 /\ n_fade.z <= Scale

=============================================================================
